---- MODULE Spec2Model ----
(***************************************************************************)
(* libiotclient (src/iotclient.c): the client handle, the control-channel  *)
(* transport (POSIX message queue "/iothub"), the body transport (named    *)
(* pipe /tmp/iothub_<pid>), the receiver queue and the header codec.       *)
(*                                                                         *)
(* Every public function is one action.  The private functions are         *)
(* operators over a machine record M = [handles, fds, heap, fifo, mq, io]; *)
(* each returns [m |-> the machine afterwards, rc |-> result].  io is the  *)
(* log of the system calls of the call in progress, with the octets handed *)
(* to mq_send and write.  The operating system's answers (whether an open, *)
(* an allocation or a write succeeds) are arguments the actions draw with  *)
(* \E.                                                                     *)
(***************************************************************************)
EXTENDS Integers, Sequences, FiniteSets, TLC

VARIABLES handles, fds, heap, fifo, rxQueue, last, pid, ctlMsgSize, gp

vars == <<handles, fds, heap, fifo, rxQueue, last, pid, ctlMsgSize, gp>>

(***************************************************************************)
(* Bounds of the model.                                                    *)
(***************************************************************************)
\* handle objects the process ever allocates (ids are never reused)
MaxHandles == 1
\* highest descriptor number of the process (open fails with EMFILE above)
MaxFd == 5
\* blocks the allocator can hand out at a time (calloc returns NULL above)
HeapSize == 5

(***************************************************************************)
(* Program constants.                                                      *)
(***************************************************************************)
\* iotclient.h: #define MAX_IOT_MSG_SIZE ( 256 * 1024 * 1024 )
MAX_IOT_MSG_SIZE == 268435456
\* <stdio.h> of the build (glibc): the size of StreamBody's block buffer
BUFSIZ == 8192
\* the characters the code compares against
COLON == 58
NEWLINE == 10
NUL == 0
\* (mqd_t)-1 and the -1 of open()
BADFD == -1
\* const char preamble[] = "IOTC"
preamble == <<73, 79, 84, 67>>

\* the null pointer: heap blocks and handle objects are numbered from 1
NULL == 0
EOK == "EOK"
\* descriptors 0..2 are the process's standard streams
STDERR_FILENO == 2

\* a const char * argument: NULL, or the characters of a C string
NullStr == [null |-> TRUE, text |-> <<>>]
Str(t) == [null |-> FALSE, text |-> t]
\* a const unsigned char * argument: NULL, or the octets it points to
NullBody == [null |-> TRUE, head |-> <<>>, zeros |-> 0]
Body(hd, z) == [null |-> FALSE, head |-> hd, zeros |-> z]

HandleIds == 1..MaxHandles
FdNums == 0..MaxFd
BlockIds == 1..HeapSize

(***************************************************************************)
(* Byte strings.                                                           *)
(***************************************************************************)
Take(s, n) == IF n >= Len(s) THEN s ELSE SubSeq(s, 1, n)
Drop(s, n) == IF n >= Len(s) THEN <<>> ELSE SubSeq(s, n + 1, Len(s))

\* strlen of a C string held as its characters (the NUL is not stored)
strlen(s) == Len(s.text)

\* A message body: the octets `head` followed by `zeros` octets of value 0.
\* (A body of 256 MiB is held by its length, not octet by octet.)
BodyLen(b) == Len(b.head) + b.zeros
BodyTake(b, n) ==
    IF n >= BodyLen(b) THEN [head |-> b.head, zeros |-> b.zeros]
    ELSE IF n <= Len(b.head) THEN [head |-> Take(b.head, n), zeros |-> 0]
    ELSE [head |-> b.head, zeros |-> n - Len(b.head)]
EmptyBody == [head |-> <<>>, zeros |-> 0]

\* memcpy(&txbuf[4], &pid, 4): the four octets of a 32-bit pid_t as the
\* (little-endian) build lays them out
PidBytes(p) ==
    << p % 256, (p \div 256) % 256, (p \div 65536) % 256,
       (p \div 16777216) % 256 >>
\* the gateway's reading of those four octets
PidOfBytes(b) == b[1] + 256 * b[2] + 65536 * b[3] + 16777216 * b[4]

(***************************************************************************)
(* The process's resources.                                                *)
(***************************************************************************)
ClosedFd == [kind |-> "closed", owner |-> 0]
\* data: the octets of a receive buffer (the content of the other blocks is
\* never read back before it is written)
FreeBlock == [kind |-> "free", owner |-> 0, size |-> 0, data |-> <<>>]
NoFifo == [exists |-> FALSE, creator |-> 0]
\* the receiver's POSIX message queue "/<name>": a system object that
\* outlives the descriptors on it; msgs are the messages waiting in it
NoQueue == [exists |-> FALSE, maxmsg |-> 0, msgsize |-> 0, msgs |-> <<>>]

\* struct IotClient after calloc( 1, sizeof( struct IotClient ) ): every
\* field zero.  state is the object's own: "none" (never allocated), "live",
\* "failed" (freed by a Create that returned NULL), "closed" (freed by
\* Close; the caller still holds the pointer).
ZeroHandle ==
    [ state |-> "live", txMsgQ |-> 0, rxMsgQ |-> 0, maxMessageSize |-> 0,
      txBuf |-> NULL, rxBuf |-> NULL, rxBufSize |-> 0, pid |-> 0,
      fifoName |-> NULL ]
NoHandle == [ZeroHandle EXCEPT !.state = "none"]
\* free( hIoTClient ): the object is gone, its fields mean nothing any more
Freed(M, h, how) == [M EXCEPT !.handles[h] = [NoHandle EXCEPT !.state = how]]

\* the lowest descriptor number that is not open (POSIX), or BADFD (EMFILE)
LowestFd(M) ==
    IF \E n \in FdNums : M.fds[n].kind = "closed"
    THEN CHOOSE n \in FdNums :
            /\ M.fds[n].kind = "closed"
            /\ \A k \in FdNums : k < n => M.fds[k].kind # "closed"
    ELSE BADFD

\* open / mq_open as the descriptor table sees it: ok is the system's answer
OpenFd(M, kind, owner, ok) ==
    LET n == LowestFd(M) IN
    IF ok /\ n # BADFD
    THEN [m |-> [M EXCEPT !.fds[n] = [kind |-> kind, owner |-> owner]],
          fd |-> n]
    ELSE [m |-> M, fd |-> BADFD]

\* close / mq_close (glibc's mq_close is close): closes whatever descriptor
\* the number names, a failure (EBADF) when it names none
CloseFd(M, n) ==
    IF n \in FdNums THEN [M EXCEPT !.fds[n] = ClosedFd] ELSE M

\* calloc / asprintf's allocation: the lowest free block, or NULL
LowestBlock(M) ==
    IF \E b \in BlockIds : M.heap[b].kind = "free"
    THEN CHOOSE b \in BlockIds :
            /\ M.heap[b].kind = "free"
            /\ \A k \in BlockIds : k < b => M.heap[k].kind # "free"
    ELSE NULL

Alloc(M, kind, owner, size, ok) ==
    LET b == LowestBlock(M) IN
    IF ok /\ b # NULL
    THEN [m |-> [M EXCEPT !.heap[b] =
                    [kind |-> kind, owner |-> owner, size |-> size,
                     data |-> IF kind = "rxBuf" THEN [i \in 1..size |-> 0]
                              ELSE <<>>]],
          p |-> b]
    ELSE [m |-> M, p |-> NULL]

Free(M, p) == IF p \in BlockIds THEN [M EXCEPT !.heap[p] = FreeBlock] ELSE M

\* one entry of the system-call log of the call in progress: the call,
\* whether it succeeded, the count it returned (write) or 0, and the octets
\* the system took (mq_send, write)
LogD(M, call, ok, n, data) ==
    [M EXCEPT !.io = Append(@, [call |-> call, ok |-> ok, n |-> n,
                                data |-> data])]
LogR(M, call, ok, n) == LogD(M, call, ok, n, EmptyBody)
Log(M, call) == LogR(M, call, TRUE, 0)

\* mq_close( q ), logged with the descriptor number it was given
mq_close(M, q) ==
    LogR(CloseFd(M, q), "mq_close", q \in FdNums /\ M.fds[q].kind # "closed",
         q)

Machine ==
    [ handles |-> handles, fds |-> fds, heap |-> heap, fifo |-> fifo,
      mq |-> rxQueue, io |-> <<>> ]

(***************************************************************************)
(* iotclient_DestroyFIFO                                                   *)
(***************************************************************************)
\* mutant: frees the name and forgets to unlink the path
iotclient_DestroyFIFO_NoUnlink(M, h) ==
    IF M.handles[h].fifoName # NULL
    THEN [Free(M, M.handles[h].fifoName) EXCEPT !.handles[h].fifoName = NULL]
    ELSE M

iotclient_DestroyFIFO(M, h) ==
    IF M.handles[h].fifoName # NULL
    THEN LET \* unlink fails (ENOENT) when the path is not on disk
             \* (logged with the handle whose pipe it removed)
             M1 == LogR([M EXCEPT !.fifo = NoFifo], "unlink",
                        M.fifo.exists, M.fifo.creator)
             M2 == Free(M1, M.handles[h].fifoName)
         IN  [M2 EXCEPT !.handles[h].fifoName = NULL]
    ELSE M

(***************************************************************************)
(* iotclient_DestroyTxMessageQueue                                         *)
(***************************************************************************)
iotclient_DestroyTxMessageQueue(M, h) ==
    LET M1 == IF M.handles[h].txBuf # NULL
              THEN [Free(M, M.handles[h].txBuf)
                        EXCEPT !.handles[h].txBuf = NULL]
              ELSE M
    IN  IF M1.handles[h].txMsgQ # BADFD
        THEN [mq_close(M1, M1.handles[h].txMsgQ)
                  EXCEPT !.handles[h].txMsgQ = BADFD]
        ELSE M1

(***************************************************************************)
(* iotclient_DestroyRxMessageQueue                                         *)
(***************************************************************************)
iotclient_DestroyRxMessageQueue(M, h) ==
    LET M1 == IF M.handles[h].rxBuf # NULL
              THEN [Free(M, M.handles[h].rxBuf)
                        EXCEPT !.handles[h].rxBuf = NULL]
              ELSE M
    IN  IF M1.handles[h].rxMsgQ # BADFD
        THEN [mq_close(M1, M1.handles[h].rxMsgQ)
                  EXCEPT !.handles[h].rxMsgQ = BADFD]
        ELSE M1

(***************************************************************************)
(* iotclient_CreateTxMessageQueue                                          *)
(* env.mqOpen, env.getattr, env.txBuf: the answers of mq_open, mq_getattr  *)
(* and calloc.                                                             *)
(***************************************************************************)
iotclient_CreateTxMessageQueue(M, h, env) ==
    LET M0 == [M EXCEPT !.handles[h].txMsgQ = BADFD]
        o  == OpenFd(M0, "ctl", h, env.mqOpen)
        M1 == [LogR(o.m, "mq_open", o.fd # BADFD, 0)
                  EXCEPT !.handles[h].txMsgQ = o.fd]
    IN
    IF o.fd # BADFD
    THEN IF env.getattr
         THEN LET M2 == [M1 EXCEPT !.handles[h].maxMessageSize = ctlMsgSize]
                  a  == Alloc(M2, "txBuf", h, ctlMsgSize, env.txBuf)
                  M3 == [a.m EXCEPT !.handles[h].txBuf = a.p]
              IN  IF a.p # NULL
                  THEN [m |-> M3, rc |-> EOK]
                  ELSE [m |-> [mq_close(M3, M3.handles[h].txMsgQ)
                                  EXCEPT !.handles[h].txMsgQ = BADFD],
                        rc |-> "ENOMEM"]
         ELSE [m |-> M1, rc |-> "EIO"]
    ELSE [m |-> M1, rc |-> "ENOENT"]

(***************************************************************************)
(* iotclient_CreateFIFO                                                    *)
(* env.asprintf: whether the name could be allocated; env.mkfifo: whether  *)
(* mkfifo succeeds when the path is free (it fails with EEXIST when the    *)
(* path exists).                                                           *)
(***************************************************************************)
iotclient_CreateFIFO(M, h, env) ==
    LET M0 == [M EXCEPT !.handles[h].pid = pid]
        a  == Alloc(M0, "fifoName", h, 0, env.asprintf)
        M1 == [a.m EXCEPT !.handles[h].fifoName = a.p]
    IN
    IF a.p # NULL
    THEN IF env.mkfifo /\ ~M1.fifo.exists
         THEN [m |-> Log([M1 EXCEPT !.fifo =
                             [exists |-> TRUE, creator |-> h]], "mkfifo"),
               rc |-> EOK]
         ELSE [m |-> iotclient_DestroyFIFO(LogR(M1, "mkfifo", FALSE, 0), h),
               rc |-> IF M1.fifo.exists THEN "EEXIST" ELSE "EACCES"]
    ELSE [m |-> M1, rc |-> "EINVAL"]

(***************************************************************************)
(* IOTCLIENT_Create: h is the handle object calloc returned.  The result   *)
(* is the handle, or NULL with the object freed.                           *)
(***************************************************************************)
Create(M, h, env) ==
    IF ~env.handle THEN [m |-> M, rc |-> NULL] ELSE
    LET M0 == [M EXCEPT !.handles[h] = ZeroHandle]
        t  == iotclient_CreateTxMessageQueue(M0, h, env)
        f  == IF t.rc = EOK
              THEN iotclient_CreateFIFO(t.m, h, env)
              ELSE t
        M1 == IF t.rc = EOK /\ f.rc # EOK
              THEN iotclient_DestroyTxMessageQueue(f.m, h)
              ELSE f.m
    IN  IF f.rc # EOK
        THEN [m |-> Freed(M1, h, "failed"), rc |-> NULL]
        ELSE [m |-> M1, rc |-> h]

(***************************************************************************)
(* IOTCLIENT_Close on NULL or a handle object that has not been freed.     *)
(***************************************************************************)
\* mutant: reports a pipe that was no longer on disk
CloseResult_Strict(M, h) == IF M.fifo.exists THEN EOK ELSE "ENOENT"
\* result = EOK: what Close returns once past the NULL check
CloseResult(M, h) == EOK

Close(M, h) ==
    IF h = NULL THEN [m |-> M, rc |-> "EINVAL"] ELSE
    LET M1 == iotclient_DestroyFIFO(M, h)
        M2 == iotclient_DestroyTxMessageQueue(M1, h)
        M3 == iotclient_DestroyRxMessageQueue(M2, h)
    IN  [m |-> Freed(M3, h, "closed"), rc |-> CloseResult(M, h)]

(***************************************************************************)
(* mq_send( q, txbuf, totalLength, 0 ) on descriptor number q: EBADF when  *)
(* q is not a message queue open for writing, EMSGSIZE when the message is *)
(* longer than the queue's mq_msgsize, otherwise the system's answer ok    *)
(* (a blocked send that a signal interrupts fails with EINTR).             *)
(***************************************************************************)
mq_send(M, q, msg, ok) ==
    IF ~(q \in FdNums /\ M.fds[q].kind = "ctl")
    THEN [m |-> LogR(M, "mq_send", FALSE, 0), rc |-> "EBADF"]
    ELSE IF Len(msg) > ctlMsgSize
    THEN [m |-> LogR(M, "mq_send", FALSE, 0), rc |-> "EMSGSIZE"]
    ELSE IF ok
    THEN [m |-> LogD(M, "mq_send", TRUE, 0, [head |-> msg, zeros |-> 0]),
          rc |-> EOK]
    ELSE [m |-> LogR(M, "mq_send", FALSE, 0), rc |-> "EINTR"]

(***************************************************************************)
(* iotclient_SendHeaders.  headers is NULL or the characters of the text.  *)
(***************************************************************************)
\* mutant: lets a frame of exactly the maximum size through
HeaderFits_Le(totalLength, maxMessageSize) == totalLength <= maxMessageSize
\* if( totalLength < hIoTClient->maxMessageSize )
HeaderFits(totalLength, maxMessageSize) == totalLength < maxMessageSize

\* mutant: sends the terminating NUL as well
FrameLength_WithNul(len) == len + 9
\* totalLength = len + 8
FrameLength(len) == len + 8

iotclient_SendHeaders(M, h, headers, env) ==
    IF h # NULL /\ M.handles[h].txBuf # NULL /\ ~headers.null
    THEN LET len == strlen(headers)
             totalLength == FrameLength(len)
         IN  IF HeaderFits(totalLength, M.handles[h].maxMessageSize)
             THEN LET \* the three memcpy into the zeroed transmit buffer
                      \* (octets past the frame are not sent)
                      txbuf == preamble \o PidBytes(M.handles[h].pid)
                                        \o headers.text
                                       \o [i \in 1..(M.handles[h].maxMessageSize
                                                        - totalLength) |-> 0]
                      q == M.handles[h].txMsgQ
                  IN  IF q # BADFD
                      THEN mq_send(M, q, Take(txbuf, totalLength), env.mqSend)
                      ELSE [m |-> M, rc |-> "EBADF"]
             ELSE [m |-> M, rc |-> "EMSGSIZE"]
    ELSE [m |-> M, rc |-> "EINVAL"]

(***************************************************************************)
(* iotclient_SendBody.  body is NULL or a body, len the caller's bodylen.  *)
(* env.open: whether open( fifoName, O_WRONLY ) succeeds when the pipe is  *)
(* on disk; env.wrote: what write returns (-1, or a count up to len).      *)
(***************************************************************************)
\* mutant: lets a body of exactly the ceiling through
BodyFits_Le(len) == len <= MAX_IOT_MSG_SIZE
\* if( len < MAX_IOT_MSG_SIZE )
BodyFits(len) == len < MAX_IOT_MSG_SIZE

\* mutant: takes a short write for a complete one
WriteResult_ShortOk(n, len) == IF n = -1 THEN "EPIPE" ELSE EOK
\* n == len: EOK; n == -1: errno; otherwise EIO
WriteResult(n, len) ==
    IF n = len THEN EOK ELSE IF n = -1 THEN "EPIPE" ELSE "EIO"

iotclient_SendBody(M, h, body, len, env) ==
    IF h # NULL /\ ~body.null
    THEN IF M.handles[h].fifoName # NULL
         THEN LET o  == OpenFd(M, "pipe", h, env.open /\ M.fifo.exists)
                  M1 == LogR(o.m, "open", o.fd # BADFD, 0)
              IN
              IF o.fd # BADFD
              THEN IF BodyFits(len)
                   THEN LET n  == env.wrote
                            M2 == LogD(M1, "write", n # -1, n,
                                       IF n = -1 THEN EmptyBody
                                       ELSE BodyTake(body, n))
                            M3 == LogR(CloseFd(M2, o.fd), "close", TRUE, o.fd)
                        IN  [m |-> M3, rc |-> WriteResult(n, len)]
                   ELSE [m |-> M1, rc |-> "EMSGSIZE"]
              ELSE [m |-> M1,
                    rc |-> IF M.fifo.exists THEN "EINTR" ELSE "ENOENT"]
         ELSE [m |-> M, rc |-> "ENOENT"]
    ELSE [m |-> M, rc |-> "EINVAL"]

(***************************************************************************)
(* IOTCLIENT_Send on NULL or a handle object that has not been freed.      *)
(* hrc is what iotclient_SendHeaders returned ("none": it was not called). *)
(***************************************************************************)
\* if ( result == EOK ) after iotclient_SendHeaders, in Send and in Stream
HeadersAccepted_Always(result) == TRUE
HeadersAccepted(result) == result = EOK

Send(M, h, headers, body, bodylen, env) ==
    IF h # NULL /\ ~headers.null /\ ~body.null
    THEN LET s == iotclient_SendHeaders(M, h, headers, env)
             b == iotclient_SendBody(s.m, h, body, bodylen, env)
         IN  IF HeadersAccepted(s.rc)
             THEN [m |-> b.m, rc |-> b.rc, hrc |-> s.rc]
             ELSE [m |-> s.m, rc |-> s.rc, hrc |-> s.rc]
    ELSE [m |-> M, rc |-> "EINVAL", hrc |-> "none"]

(***************************************************************************)
(* iotclient_StreamBody.  src is what the successive read( fd, buf,        *)
(* BUFSIZ ) calls return: each r = [n, data] with n = -1 (error), 0 (end   *)
(* of data) or the count of octets read into buf, and data those octets;   *)
(* past the end of src every read returns 0.                               *)
(***************************************************************************)
EndOfData == [n |-> 0, data |-> EmptyBody]

\* while( total < MAX_IOT_MSG_SIZE ) { ... }: k counts the reads made.
\* n is a size_t: a read that returns -1 stores SIZE_MAX, which is greater
\* than bytesLeft, so n becomes bytesLeft; write is then handed bytesLeft
\* octets of buf, which holds BUFSIZ (logged with ok = FALSE: the octets
\* past buf are not the source's).  The result of write is not looked at.
\* mutant: a loop without the ceiling
StreamContinues_Always(total) == TRUE
\* while( total < MAX_IOT_MSG_SIZE )
StreamContinues(total) == total < MAX_IOT_MSG_SIZE

\* n = read( fd, buf, BUFSIZ ); if ( n > bytesLeft ) { n = bytesLeft; }
\* with rn what read returned
BlockCount(rn, bytesLeft) ==
    IF rn = -1 \/ rn > bytesLeft THEN bytesLeft ELSE rn

RECURSIVE StreamLoop(_, _, _, _, _)
StreamLoop(M, src, k, total, bytesLeft) ==
    IF StreamContinues(total)
    THEN LET r  == IF k < Len(src) THEN src[k + 1] ELSE EndOfData
             M1 == LogR(M, "read", r.n # -1, r.n)
             n  == BlockCount(r.n, bytesLeft)
         IN  IF n > 0
             THEN StreamLoop(
                     LogD(M1, "write", r.n # -1, n,
                          IF r.n = -1 THEN [head |-> <<>>, zeros |-> n]
                          ELSE BodyTake(r.data, n)),
                     src, k + 1, total + n, bytesLeft - n)
             ELSE M1
    ELSE M

iotclient_StreamBody(M, h, fd, src, env) ==
    IF h # NULL /\ fd # -1
    THEN IF M.handles[h].fifoName # NULL
         THEN LET o  == OpenFd(M, "pipe", h, env.open /\ M.fifo.exists)
                  M1 == LogR(o.m, "open", o.fd # BADFD, 0)
              IN  IF o.fd # BADFD
                  THEN LET M2 == StreamLoop(M1, src, 0, 0, MAX_IOT_MSG_SIZE)
                       IN  [m |-> LogR(CloseFd(M2, o.fd), "close", TRUE, o.fd),
                            rc |-> EOK]
                  ELSE [m |-> M1, rc |-> "EBADF"]
         ELSE [m |-> M, rc |-> "ENOENT"]
    ELSE [m |-> M, rc |-> "EINVAL"]

(***************************************************************************)
(* IOTCLIENT_Stream on NULL or a handle object that has not been freed.    *)
(***************************************************************************)
Stream(M, h, headers, fd, src, env) ==
    IF h # NULL /\ ~headers.null /\ fd # -1
    THEN LET s == iotclient_SendHeaders(M, h, headers, env)
             b == iotclient_StreamBody(s.m, h, fd, src, env)
         IN  IF HeadersAccepted(s.rc)
             THEN [m |-> b.m, rc |-> b.rc, hrc |-> s.rc]
             ELSE [m |-> s.m, rc |-> s.rc, hrc |-> s.rc]
    ELSE [m |-> M, rc |-> "EINVAL", hrc |-> "none"]

(***************************************************************************)
(* IOTCLIENT_CreateReceiver on NULL or a handle object not yet freed.      *)
(* env.asprintf, env.rxBuf, env.mqOpen: the answers of asprintf, calloc    *)
(* and mq_open.                                                            *)
(***************************************************************************)
CreateReceiver(M, h, name, maxMessages, size, env) ==
    LET M0 == [M EXCEPT !.handles[h].rxMsgQ = BADFD]
        r  == Alloc(M0, "receiver", h, 0, env.asprintf)
    IN
    IF h = NULL THEN [m |-> M, rc |-> "EINVAL"]
    ELSE IF r.p # NULL
    THEN LET a  == Alloc(r.m, "rxBuf", h, size, env.rxBuf)
             M1 == [a.m EXCEPT !.handles[h].rxBufSize = size,
                               !.handles[h].rxBuf = a.p]
         IN  IF a.p # NULL
             THEN LET o  == OpenFd(M1, "rxq", h, env.mqOpen)
                      \* O_CREAT: attr is used only when the queue is new
                      Q  == IF o.fd # BADFD /\ ~o.m.mq.exists
                            THEN [exists |-> TRUE, maxmsg |-> maxMessages,
                                  msgsize |-> size, msgs |-> <<>>]
                            ELSE o.m.mq
                      M2 == [LogR(o.m, "mq_open", o.fd # BADFD, 0)
                                EXCEPT !.handles[h].rxMsgQ = o.fd,
                                       !.mq = Q]
                  IN  [m |-> Free(M2, r.p),
                       rc |-> IF o.fd # BADFD THEN EOK ELSE "EACCES"]
             ELSE [m |-> Free(M1, r.p), rc |-> "ENOMEM"]
    ELSE [m |-> M0, rc |-> "EINVAL"]

(***************************************************************************)
(* IOTCLIENT_GetProperty.                                                  *)
(* The header text lies in memory as its characters, the terminating NUL,  *)
(* and then octets that are not part of the string: reading those is       *)
(* undefined, and `fill` is the value such a read yields.                  *)
(***************************************************************************)
\* headers[i], i counted from 0
MemAt(text, fill, i) ==
    IF i < Len(text) THEN text[i + 1]
    ELSE IF i = Len(text) THEN NUL
    ELSE fill

\* strstr( haystack, needle ): the offset of the first occurrence, -1 for
\* the null pointer
OccursAt(hay, needle, i) ==
    /\ i + Len(needle) <= Len(hay)
    /\ \A k \in 1..Len(needle) : hay[i + k] = needle[k]
\* mutant: matches the needle at the start of the text only
strstr_AtStart(hay, needle) == IF OccursAt(hay, needle, 0) THEN 0 ELSE -1
strstr(hay, needle) ==
    IF \E i \in 0..Len(hay) : OccursAt(hay, needle, i)
    THEN CHOOSE i \in 0..Len(hay) :
            /\ OccursAt(hay, needle, i)
            /\ \A j \in 0..(i - 1) : ~OccursAt(hay, needle, j)
    ELSE -1

\* while( i < len ) { ... i++; } with p at offset start of the text;
\* st = [buf, rc, oob]: the caller's buffer, the result so far, and whether
\* an octet past the terminating NUL has been read
LoopContinues_Le(i, len) == i <= len
LoopContinues(i, len) == i < len

RECURSIVE GetPropertyLoop(_, _, _, _, _, _)
GetPropertyLoop(text, fill, start, i, len, st) ==
    IF LoopContinues(i, len)
    THEN LET c  == MemAt(text, fill, start + i)
             s1 == [st EXCEPT !.oob = @ \/ (start + i > Len(text))]
         IN  IF c = NEWLINE \/ c = NUL
             THEN GetPropertyLoop(text, fill, start, i + 1, len,
                     [s1 EXCEPT !.buf[i + 1] = 0, !.rc = EOK])
             ELSE GetPropertyLoop(text, fill, start, i + 1, len,
                     [s1 EXCEPT !.buf[i + 1] = c])
    ELSE st

\* the argument check of IOTCLIENT_GetProperty
GetPropertyArgsOk_AnyLen(headers, property, bufNull, len) ==
    ~headers.null /\ ~property.null /\ ~bufNull
GetPropertyArgsOk(headers, property, bufNull, len) ==
    ~headers.null /\ ~property.null /\ ~bufNull /\ len > 0

\* buf: the caller's memory from buf[0] on as it was (the len octets of the
\* buffer and what lies behind them), bufNull: buf == NULL
GetProperty(headers, property, bufNull, buf, len, fill) ==
    IF GetPropertyArgsOk(headers, property, bufNull, len)
    THEN LET plen == strlen(property)
             p == strstr(headers.text, property.text)
         IN  IF p # -1 /\ MemAt(headers.text, fill, p + plen) = COLON
             THEN GetPropertyLoop(headers.text, fill, p + plen + 1, 0, len,
                     [buf |-> buf, rc |-> "ENOMEM", oob |-> FALSE])
             ELSE [buf |-> buf, rc |-> "ENOENT", oob |-> FALSE]
    ELSE [buf |-> buf, rc |-> "EINVAL", oob |-> FALSE]

(***************************************************************************)
(* IOTCLIENT_Receive.  Pointers into the receive buffer are offsets from   *)
(* rxBuf, -1 for NULL.  A length is a size_t; a negative number d stands   *)
(* for the wrapped value SIZE_MAX + 1 + d.                                 *)
(***************************************************************************)
Delimiter == <<NEWLINE, NEWLINE>>
\* *ppHeader, *pHeaderLength, *ppBody, *pBodyLength; set: the call has
\* assigned them
NoOut == [set |-> FALSE, header |-> -1, hlen |-> 0, body |-> -1, blen |-> 0]

\* the octets of mem before its first NUL: mem read as a C string
UpToNul(mem) ==
    IF \E i \in 1..Len(mem) : mem[i] = NUL
    THEN Take(mem, (CHOOSE i \in 1..Len(mem) :
                      mem[i] = NUL /\ \A j \in 1..(i - 1) : mem[j] # NUL) - 1)
    ELSE mem

\* mq_receive into rxBuf: the n octets of msg at the start of the buffer,
\* the octets behind them as earlier calls left them
StoreMsg(buf, msg) ==
    [i \in 1..Len(buf) |-> IF i <= Len(msg) THEN msg[i] ELSE buf[i]]

\* the length reported for the body when the delimiter is found at k
BodyLength(n, k) == n - k

\* The n > 0 branch: strstr( rxBuf, "\n\n" ) searches the buffer as a C
\* string, that is up to its first NUL wherever that lies; beyond is what
\* the memory behind the buffer holds (ending in a NUL).
\*   oob:  the search read octets behind the buffer
\*   wild: *p = '\0' was written behind the buffer
SplitHeaderBody_NoTerminate(buf, size, n, beyond) ==
    LET k == strstr(UpToNul(buf \o beyond), Delimiter) IN
    IF k = -1
    THEN [buf |-> buf, oob |-> Len(UpToNul(buf)) >= size, wild |-> FALSE,
          out |-> [set |-> TRUE, header |-> -1, hlen |-> 0,
                   body |-> 0, blen |-> n]]
    ELSE [buf |-> buf, oob |-> k + 2 > size, wild |-> k >= size,
          out |-> [set |-> TRUE, header |-> 0, hlen |-> k,
                   body |-> IF k < size THEN k + 2 ELSE -1,
                   blen |-> IF k < size THEN BodyLength(n, k) ELSE 0]]
SplitHeaderBody(buf, size, n, beyond) ==
    LET k == strstr(UpToNul(buf \o beyond), Delimiter) IN
    IF k = -1
    THEN [buf |-> buf, oob |-> Len(UpToNul(buf)) >= size, wild |-> FALSE,
          out |-> [set |-> TRUE, header |-> -1, hlen |-> 0,
                   body |-> 0, blen |-> n]]
    ELSE [buf |-> IF k < size THEN [buf EXCEPT ![k + 1] = NUL] ELSE buf,
          oob |-> k + 2 > size, wild |-> k >= size,
          out |-> [set |-> TRUE, header |-> 0, hlen |-> k,
                   body |-> IF k < size THEN k + 2 ELSE -1,
                   blen |-> IF k < size THEN BodyLength(n, k) ELSE 0]]

\* the argument check of IOTCLIENT_Receive; outNull: one of the four
\* result pointers is NULL
ReceiveArgsOk(M, h, outNull) ==
    /\ h # NULL
    /\ M.handles[h].rxMsgQ # -1
    /\ M.handles[h].rxBuf # NULL
    /\ M.handles[h].rxBufSize > 0
    /\ ~outNull

\* mq_receive( rxMsgQ, rxBuf, rxBufSize, NULL ) fails at once, with EMSGSIZE,
\* when the buffer is smaller than the mq_msgsize of the queue
BufferHoldsAnyMessage(M, h) == M.handles[h].rxBufSize >= M.mq.msgsize

\* IOTCLIENT_Receive from the return of mq_receive on.  r is what
\* mq_receive did: [n |-> -1, msg |-> <<>>] (errno = env.errno) or the
\* message it took from the queue, n = Len(msg).  With n = 0 the result is
\* errno as the last failing call of the process left it (env.errno).
\* A search that runs behind the buffer is undefined: it goes on with
\* env.beyond, or faults (env.fault).
ReceiveReturned(M, h, r, env) ==
    LET b    == M.handles[h].rxBuf
        size == M.handles[h].rxBufSize
        rxd  == StoreMsg(M.heap[b].data, r.msg)
        sp   == SplitHeaderBody(rxd, size, r.n, env.beyond)
        M1   == LogD(M, "mq_receive", r.n # -1, r.n,
                     [head |-> r.msg, zeros |-> 0])
    IN  IF r.n > 0
        THEN IF sp.oob /\ env.fault
             THEN [m |-> [M1 EXCEPT !.heap[b].data = rxd], rc |-> "CRASH",
                   out |-> NoOut, rxd |-> rxd, ub |-> TRUE]
             ELSE [m |-> [M1 EXCEPT !.heap[b].data = sp.buf], rc |-> EOK,
                   out |-> sp.out, rxd |-> rxd, ub |-> sp.oob \/ sp.wild]
        ELSE [m |-> M1, rc |-> env.errno, out |-> NoOut, rxd |-> rxd,
              ub |-> FALSE]

(***************************************************************************)
(* The inputs the actions draw from.                                       *)
(***************************************************************************)
\* getpid() of the process
Pids == {70000}
\* attr.mq_msgsize of the control queue
MsgSizes == {14}
\* header texts: NULL, "", "a:1\n\n" (8 + 5 < 14), "a:12\n\n" (8 + 6 = 14)
HeaderArgs ==
    { NullStr, Str(<<>>), Str(<<97, COLON, 49, NEWLINE, NEWLINE>>),
      Str(<<97, COLON, 49, 50, NEWLINE, NEWLINE>>) }
\* bodies: NULL, empty, two octets, and 256 MiB - 1, 256 MiB and
\* 256 MiB + 1 octets
BodyArgs ==
    { NullBody, Body(<<>>, 0), Body(<<1, 2>>, 0),
      Body(<<7>>, MAX_IOT_MSG_SIZE - 2), Body(<<7>>, MAX_IOT_MSG_SIZE - 1),
      Body(<<7>>, MAX_IOT_MSG_SIZE) }
\* what the reads of a stream's source return: nothing, three octets then
\* the end, an error at once, three octets then an error
Chunk(d) == [n |-> Len(d), data |-> [head |-> d, zeros |-> 0]]
ReadError == [n |-> -1, data |-> EmptyBody]
StreamSources ==
    { <<>>, <<Chunk(<<5, 6, 7>>)>>, <<ReadError>>,
      <<Chunk(<<5, 6, 7>>), ReadError>> }
\* the descriptor to stream from: -1, or the standard input
StreamFds == {-1, 0}
\* what write( fd, body, len ) can return: -1, all of it, or a short count
WriteCounts(len) == {-1, len} \cup {n \in {0, len - 1} : n >= 0 /\ n < len}
ReceiverNames == {"rx"}
RxSizes == {8}
RxMaxMessages == {1}

\* The system's answers to one call.  A call stops at its first failure, so
\* the answers after it are never asked for: at most one is a failure.
OneFailure(E) == {e \in E : Cardinality({f \in DOMAIN e : ~e[f]}) <= 1}
CreateEnvs ==
    OneFailure([ handle : BOOLEAN, mqOpen : BOOLEAN, getattr : BOOLEAN,
                 txBuf : BOOLEAN, asprintf : BOOLEAN, mkfifo : BOOLEAN ])
ReceiverEnvs ==
    OneFailure([ asprintf : BOOLEAN, rxBuf : BOOLEAN, mqOpen : BOOLEAN ])
SendEnvs(len) ==
    { [mqSend |-> FALSE, open |-> TRUE, wrote |-> len],
      [mqSend |-> TRUE, open |-> FALSE, wrote |-> len] }
    \cup { [mqSend |-> TRUE, open |-> TRUE, wrote |-> w] :
              w \in WriteCounts(len) }

\* handle values a caller can pass: NULL or one that Create returned and
\* Close has not freed
LiveHandles == {h \in DOMAIN handles : handles[h].state = "live"}
\* pointers the caller still holds after Close freed the object
DanglingHandles == {h \in DOMAIN handles : handles[h].state = "closed"}
UnusedIds == {h \in DOMAIN handles : handles[h].state = "none"}

\* the locals of an iotclient_StreamBody in progress: the reads made, total,
\* bytesLeft, fd_out, and what the source returns once src is used up
NoStream ==
    [ k |-> 0, total |-> 0, bytesLeft |-> 0, fd_out |-> -1,
      rest |-> EndOfData ]

\* last: the step taken last; for a call of the library its arguments, its
\* result and its system calls
NoCall ==
    [ op |-> "none", h |-> NULL, rc |-> EOK, hrc |-> "none", io |-> <<>>,
      hdrs |-> NullStr, body |-> NullBody, fd |-> -1, src |-> <<>>,
      n |-> 0, msg |-> <<>>, rxd |-> <<>>, out |-> NoOut, ub |-> FALSE,
      sb |-> NoStream ]

\* the caller is blocked in mq_receive
Pending == last.op = "Receive" /\ last.rc = "PENDING"

\* the caller is inside the loop of iotclient_StreamBody, or past it
Streaming == last.op = "Stream" /\ last.rc \in {"STREAMING", "CLOSING"}

\* nothing is said of the process once it has aborted or has run into
\* undefined behaviour; it makes no call while it is blocked or in a call
Running == last.rc # "CRASH" /\ ~last.ub /\ ~Pending /\ ~Streaming

\* the machine record back into the variables
Commit(M) ==
    /\ handles' = M.handles
    /\ fds' = M.fds
    /\ heap' = M.heap
    /\ fifo' = M.fifo
    /\ rxQueue' = M.mq

Init ==
    /\ handles = [h \in HandleIds |-> NoHandle]
    /\ fds = [n \in FdNums |->
                IF n <= STDERR_FILENO THEN [kind |-> "std", owner |-> 0]
                ELSE ClosedFd]
    /\ heap = [b \in BlockIds |-> FreeBlock]
    /\ fifo = NoFifo
    /\ rxQueue = NoQueue
    /\ last = NoCall
    /\ pid \in Pids
    /\ ctlMsgSize \in MsgSizes
    /\ gp = 0

IOTCLIENT_Create ==
    /\ Running
    /\ UnusedIds # {}
    /\ \E env \in CreateEnvs :
          LET h == CHOOSE i \in UnusedIds : \A j \in UnusedIds : i <= j
              r == Create(Machine, h, env)
          IN  /\ Commit(r.m)
              /\ last' = [NoCall EXCEPT !.op = "Create", !.h = h,
                             !.rc = IF r.rc = NULL THEN "NULL" ELSE EOK,
                             !.io = r.m.io]
    /\ UNCHANGED <<pid, ctlMsgSize, gp>>

\* IOTCLIENT_Send with the headers and bodies drawn from HA and BA
SendCall(HA, BA) ==
    /\ Running
    /\ \E h \in LiveHandles \cup {NULL}, headers \in HA, body \in BA :
        \E env \in SendEnvs(BodyLen(body)) :
          LET r == Send(Machine, h, headers, body, BodyLen(body), env)
          IN  /\ Commit(r.m)
              /\ last' = [NoCall EXCEPT !.op = "Send", !.h = h, !.rc = r.rc,
                             !.hrc = r.hrc, !.io = r.m.io,
                             !.hdrs = headers, !.body = body]
    /\ UNCHANGED <<pid, ctlMsgSize, gp>>

IOTCLIENT_Send == SendCall(HeaderArgs, BodyArgs)

\* the same with one header text and one small body
SendSome ==
    SendCall({Str(<<97, COLON, 49, NEWLINE, NEWLINE>>)}, {Body(<<1, 2>>, 0)})

\* IOTCLIENT_Stream with the headers and sources drawn from HA and SA
StreamCall(HA, SA) ==
    /\ Running
    /\ \E h \in LiveHandles \cup {NULL}, headers \in HA, fd \in StreamFds,
          src \in SA :
        \E env \in SendEnvs(0) :
          LET r == Stream(Machine, h, headers, fd, src, env)
          IN  /\ Commit(r.m)
              /\ last' = [NoCall EXCEPT !.op = "Stream", !.h = h, !.rc = r.rc,
                             !.hrc = r.hrc, !.io = r.m.io,
                             !.hdrs = headers, !.fd = fd, !.src = src]
    /\ UNCHANGED <<pid, ctlMsgSize, gp>>

IOTCLIENT_Stream == StreamCall(HeaderArgs, StreamSources)

IOTCLIENT_CreateReceiver ==
    /\ Running
    /\ \E h \in LiveHandles \cup {NULL}, name \in ReceiverNames,
          maxMessages \in RxMaxMessages, size \in RxSizes,
          env \in ReceiverEnvs :
          LET r == CreateReceiver(Machine, h, name, maxMessages, size, env)
          IN  /\ Commit(r.m)
              /\ last' = [NoCall EXCEPT !.op = "CreateReceiver", !.h = h,
                             !.rc = r.rc, !.io = r.m.io]
    /\ UNCHANGED <<pid, ctlMsgSize, gp>>

IOTCLIENT_Close ==
    /\ Running
    /\ \E h \in LiveHandles \cup {NULL} :
          LET r == Close(Machine, h)
          IN  /\ Commit(r.m)
              /\ last' = [NoCall EXCEPT !.op = "Close", !.h = h, !.rc = r.rc,
                             !.io = r.m.io]
    /\ UNCHANGED <<pid, ctlMsgSize, gp>>

(***************************************************************************)
(* IOTCLIENT_Close on a pointer an earlier Close already freed.  The call  *)
(* reads the freed object and frees it again: undefined behaviour.  What   *)
(* the build can do: abort (the allocator detects the double free, or the  *)
(* read faults); return EOK having touched nothing (the stale fields all   *)
(* say "released"); or return EOK after mq_close on whatever number the    *)
(* allocator's bookkeeping left in txMsgQ / rxMsgQ.                        *)
(***************************************************************************)
IOTCLIENT_CloseAgain ==
    /\ Running
    /\ \E h \in DanglingHandles :
          \/ /\ last' = [NoCall EXCEPT !.op = "Close", !.h = h,
                            !.rc = "CRASH", !.ub = TRUE]
             /\ UNCHANGED <<handles, fds, heap, fifo, rxQueue>>
          \/ /\ last' = [NoCall EXCEPT !.op = "Close", !.h = h, !.rc = EOK,
                            !.ub = TRUE]
             /\ UNCHANGED <<handles, fds, heap, fifo, rxQueue>>
          \/ \E n \in FdNums :
                /\ fds[n].kind # "closed"
                /\ fds' = [fds EXCEPT ![n] = ClosedFd]
                /\ last' = [NoCall EXCEPT !.op = "Close", !.h = h,
                               !.rc = EOK, !.ub = TRUE,
                               !.io = mq_close(Machine, n).io]
                /\ UNCHANGED <<handles, heap, fifo, rxQueue>>
    /\ UNCHANGED <<pid, ctlMsgSize, gp>>

(***************************************************************************)
(* The rest of the system: someone removes the pipe from /tmp.             *)
(***************************************************************************)
ExternalUnlink ==
    /\ Running
    /\ fifo.exists
    /\ fifo' = NoFifo
    /\ last' = [NoCall EXCEPT !.op = "unlink"]
    /\ UNCHANGED <<handles, fds, heap, rxQueue, pid, ctlMsgSize, gp>>

(***************************************************************************)
(* The handle's life: Create, CreateReceiver, Close and a second Close,    *)
(* with Send of a small message in between and the pipe removable by       *)
(* others.                                                                 *)
(***************************************************************************)
Next ==
    \/ IOTCLIENT_Create
    \/ SendSome
    \/ IOTCLIENT_CreateReceiver
    \/ IOTCLIENT_Close
    \/ IOTCLIENT_CloseAgain
    \/ ExternalUnlink

Spec == Init /\ [][Next]_vars

(***************************************************************************)
(* Sending: the process creates one handle, then Send and Stream with      *)
(* every header text, body and source.                                     *)
(***************************************************************************)
\* the process's first call of IOTCLIENT_Create
CreateFirst ==
    /\ \A h \in DOMAIN handles : handles[h].state = "none"
    /\ IOTCLIENT_Create

NextSend ==
    \/ CreateFirst
    \/ IOTCLIENT_Send
    \/ IOTCLIENT_Stream
    \/ IOTCLIENT_Close
    \/ ExternalUnlink

SpecSend == Init /\ [][NextSend]_vars

(***************************************************************************)
(* IOTCLIENT_Stream block by block: the call up to the loop of             *)
(* iotclient_StreamBody, one step per iteration of the loop, and the close *)
(* and return.  The source is finite (src, then the end of data) or        *)
(* endless (src, then a full block on every read).  The system calls of    *)
(* the iterations are not kept in the log.                                 *)
(***************************************************************************)
\* a read that fills buf
FullBlock == [n |-> BUFSIZ, data |-> [head |-> <<>>, zeros |-> BUFSIZ]]
\* what the reads return when src is used up: the end of data, or block
\* after block without end
SourceRests == {EndOfData, FullBlock}

\* IOTCLIENT_Stream up to while( total < MAX_IOT_MSG_SIZE )
StreamBegin ==
    /\ Running
    /\ \E h \in LiveHandles \cup {NULL}, fd \in StreamFds,
          src \in StreamSources, rest \in SourceRests, env \in SendEnvs(0) :
          LET headers == Str(<<97, COLON, 49, NEWLINE, NEWLINE>>)
              \* the call as a whole, for the paths that do not get to the
              \* loop (the source is not read on them)
              r  == Stream(Machine, h, headers, fd, <<>>, env)
              s  == iotclient_SendHeaders(Machine, h, headers, env)
              o  == OpenFd(s.m, "pipe", h, env.open /\ s.m.fifo.exists)
              M1 == LogR(o.m, "open", o.fd # BADFD, 0)
          IN  IF /\ h # NULL
                 /\ fd # -1
                 /\ HeadersAccepted(s.rc)
                 /\ s.m.handles[h].fifoName # NULL
                 /\ o.fd # BADFD
              THEN /\ Commit(M1)
                   /\ last' = [NoCall EXCEPT !.op = "Stream", !.h = h,
                                  !.rc = "STREAMING", !.hrc = r.hrc,
                                  !.io = M1.io, !.hdrs = headers,
                                  !.fd = fd, !.src = src,
                                  !.sb = [k |-> 0, total |-> 0,
                                          bytesLeft |-> MAX_IOT_MSG_SIZE,
                                          fd_out |-> o.fd, rest |-> rest]]
              ELSE /\ Commit(r.m)
                   /\ last' = [NoCall EXCEPT !.op = "Stream", !.h = h,
                                  !.rc = r.rc, !.hrc = r.hrc, !.io = r.m.io,
                                  !.hdrs = headers, !.fd = fd, !.src = src]
    /\ UNCHANGED <<pid, ctlMsgSize, gp>>

\* one iteration of the loop: read, truncate, and write or break
StreamBlock ==
    /\ last.op = "Stream"
    /\ last.rc = "STREAMING"
    /\ StreamContinues(last.sb.total)
    /\ LET r == IF last.sb.k < Len(last.src) THEN last.src[last.sb.k + 1]
                ELSE last.sb.rest
           n == BlockCount(r.n, last.sb.bytesLeft)
       IN  last' = IF n > 0
                   THEN [last EXCEPT !.sb.k = @ + 1, !.sb.total = @ + n,
                                     !.sb.bytesLeft = @ - n]
                   ELSE [last EXCEPT !.sb.k = @ + 1, !.rc = "CLOSING"]
    /\ UNCHANGED <<handles, fds, heap, fifo, rxQueue, pid, ctlMsgSize, gp>>

\* past the loop: close( fd_out ) and the return of IOTCLIENT_Stream
StreamEnd ==
    /\ last.op = "Stream"
    /\ \/ last.rc = "CLOSING"
       \/ last.rc = "STREAMING" /\ ~StreamContinues(last.sb.total)
    /\ LET M1 == LogR(CloseFd([Machine EXCEPT !.io = last.io],
                              last.sb.fd_out),
                      "close", TRUE, last.sb.fd_out)
       IN  /\ Commit(M1)
           /\ last' = [last EXCEPT !.rc = EOK, !.io = M1.io]
    /\ UNCHANGED <<pid, ctlMsgSize, gp>>

NextStream ==
    \/ CreateFirst
    \/ StreamBegin
    \/ StreamBlock
    \/ StreamEnd

SpecStream == Init /\ [][NextStream]_vars

\* every read and every write of the loop returns, and so does close
SpecStreamFair ==
    SpecStream /\ WF_vars(StreamBlock) /\ WF_vars(StreamEnd)

(***************************************************************************)
(* Receiving: the process creates one handle and a receiver on it, others  *)
(* put messages on the receiver's queue, the process calls Receive.        *)
(***************************************************************************)
\* the messages others send: "a:1\n\nxy", "a:1\n\n", "xyz", the empty
\* message, "x\n\ny\n\nz", "abcdefgh", "abcdefg\n", "a\0\n\nb"
RxMessages ==
    { <<97, COLON, 49, NEWLINE, NEWLINE, 120, 121>>,
      <<97, COLON, 49, NEWLINE, NEWLINE>>,
      <<120, 121, 122>>,
      <<>>,
      <<120, NEWLINE, NEWLINE, 121, NEWLINE, NEWLINE, 122>>,
      <<97, 98, 99, 100, 101, 102, 103, 104>>,
      <<97, 98, 99, 100, 101, 102, 103, NEWLINE>>,
      <<97, NUL, NEWLINE, NEWLINE, 98>> }
\* what the memory behind the receive buffer can hold
Beyonds == { <<NUL>>, <<NEWLINE, NUL>>, <<NEWLINE, NEWLINE, NUL>> }
\* errno as an earlier call of the process left it: 0, or an error
StaleErrnos == { EOK, "ENOENT" }
ReceiveEnvs == [ beyond : Beyonds, fault : BOOLEAN, errno : StaleErrnos ]

\* mq_send by another process: blocks while the queue is full, fails with
\* EMSGSIZE for a message longer than the queue's mq_msgsize
Deliver ==
    /\ rxQueue.exists
    /\ Len(rxQueue.msgs) < rxQueue.maxmsg
    /\ \E msg \in RxMessages :
          /\ Len(msg) <= rxQueue.msgsize
          /\ rxQueue' = [rxQueue EXCEPT !.msgs = Append(@, msg)]
    /\ UNCHANGED <<handles, fds, heap, fifo, last, pid, ctlMsgSize, gp>>

\* IOTCLIENT_Receive up to mq_receive: EINVAL at once, the errno of an
\* mq_receive that fails at once (n = -1), or the call waits
ReceiveCall ==
    /\ Running
    /\ \E h \in LiveHandles \cup {NULL}, outNull \in BOOLEAN :
          last' = [NoCall EXCEPT !.op = "Receive", !.h = h,
                      !.n = IF ReceiveArgsOk(Machine, h, outNull)
                               /\ ~BufferHoldsAnyMessage(Machine, h)
                            THEN -1 ELSE 0,
                      !.rc = IF ~ReceiveArgsOk(Machine, h, outNull)
                             THEN "EINVAL"
                             ELSE IF ~BufferHoldsAnyMessage(Machine, h)
                             THEN "EMSGSIZE"
                             ELSE "PENDING"]
    /\ UNCHANGED <<handles, fds, heap, fifo, rxQueue, pid, ctlMsgSize, gp>>

\* mq_receive returns, with the oldest message of the queue or interrupted
\* by a signal (EINTR), and IOTCLIENT_Receive runs to its end.  The
\* descriptor was opened without O_NONBLOCK: on an empty queue it waits.
ReceiveReturn ==
    /\ Pending
    /\ \/ /\ rxQueue.msgs # <<>>
          /\ \E env \in ReceiveEnvs :
                LET msg == Head(rxQueue.msgs)
                    M   == [Machine EXCEPT !.mq.msgs = Tail(@)]
                    r   == ReceiveReturned(M, last.h,
                              [n |-> Len(msg), msg |-> msg], env)
                IN  /\ Commit(r.m)
                    /\ last' = [NoCall EXCEPT !.op = "Receive", !.h = last.h,
                                   !.rc = r.rc, !.io = r.m.io,
                                   !.n = Len(msg), !.msg = msg,
                                   !.rxd = r.rxd, !.out = r.out,
                                   !.ub = r.ub]
       \/ LET r == ReceiveReturned(Machine, last.h,
                       [n |-> -1, msg |-> <<>>],
                       [beyond |-> <<NUL>>, fault |-> FALSE,
                        errno |-> "EINTR"])
          IN  /\ Commit(r.m)
              /\ last' = [NoCall EXCEPT !.op = "Receive", !.h = last.h,
                             !.rc = r.rc, !.io = r.m.io, !.n = -1]
    /\ UNCHANGED <<pid, ctlMsgSize, gp>>

\* IOTCLIENT_CreateReceiver while no handle has a receive buffer (calling
\* it again on the same handle is part of the handle's life above)
CreateReceiverFirst ==
    /\ \A h \in DOMAIN handles : handles[h].rxBuf = NULL
    /\ IOTCLIENT_CreateReceiver

NextRecv ==
    \/ CreateFirst
    \/ CreateReceiverFirst
    \/ Deliver
    \/ ReceiveCall
    \/ ReceiveReturn
    \/ IOTCLIENT_Close

SpecRecv == Init /\ [][NextRecv]_vars

(***************************************************************************)
(* The same where the queue "/rx" may exist before the process starts,     *)
(* left by an earlier run (the library never removes a queue) or created   *)
(* by the sender, with a message size of its own.                          *)
(***************************************************************************)
\* the mq_msgsize of a queue that exists beforehand: less and more than the
\* size the process asks for
QueueSizes == {4, 16}

InitQueue ==
    /\ handles = [h \in HandleIds |-> NoHandle]
    /\ fds = [n \in FdNums |->
                IF n <= STDERR_FILENO THEN [kind |-> "std", owner |-> 0]
                ELSE ClosedFd]
    /\ heap = [b \in BlockIds |-> FreeBlock]
    /\ fifo = NoFifo
    /\ rxQueue \in {NoQueue}
                  \cup { [exists |-> TRUE, maxmsg |-> 1, msgsize |-> s,
                          msgs |-> <<>>] : s \in QueueSizes }
    /\ last = NoCall
    /\ pid \in Pids
    /\ ctlMsgSize \in MsgSizes
    /\ gp = 0

SpecQueue == InitQueue /\ [][NextRecv]_vars

(***************************************************************************)
(* IOTCLIENT_GetProperty on its own: the arguments are drawn at the start, *)
(* the one step is the call.                                               *)
(***************************************************************************)
\* the largest buffer the caller passes
MaxCap == 8
\* an octet of the caller's memory the call has not written
UNSET == 255
\* "a:1\nb:2\n\n", "a:1\n\n", "at:1\na:2\n\n", "myfoo:1\n", "b:a\na:2\n",
\* "a:123456789", and NULL
GpHeaders ==
    { Str(<<97, COLON, 49, NEWLINE, 98, COLON, 50, NEWLINE, NEWLINE>>),
      Str(<<97, COLON, 49, NEWLINE, NEWLINE>>),
      Str(<<97, 116, COLON, 49, NEWLINE, 97, COLON, 50, NEWLINE, NEWLINE>>),
      Str(<<109, 121, 102, 111, 111, COLON, 49, NEWLINE>>),
      Str(<<98, COLON, 97, NEWLINE, 97, COLON, 50, NEWLINE>>),
      Str(<<97, COLON, 49, 50, 51, 52, 53, 54, 55, 56, 57>>),
      NullStr }
\* "a", "b", "c", "foo", and NULL
GpNames == { Str(<<97>>), Str(<<98>>), Str(<<99>>), Str(<<102, 111, 111>>),
             NullStr }
\* what a read past the terminating NUL can yield
GpFills == {NUL, NEWLINE, 120}

InitGP ==
    /\ handles = [h \in HandleIds |-> NoHandle]
    /\ fds = [n \in FdNums |->
                IF n <= STDERR_FILENO THEN [kind |-> "std", owner |-> 0]
                ELSE ClosedFd]
    /\ heap = [b \in BlockIds |-> FreeBlock]
    /\ fifo = NoFifo
    /\ rxQueue = NoQueue
    /\ last = NoCall
    /\ pid \in Pids
    /\ ctlMsgSize \in MsgSizes
    /\ \E headers \in GpHeaders, property \in GpNames, bufNull \in BOOLEAN,
          len \in 0..MaxCap, fill \in GpFills :
          gp = [ headers |-> headers, property |-> property,
                 bufNull |-> bufNull, len |-> len, fill |-> fill,
                 done |-> FALSE, rc |-> EOK, oob |-> FALSE,
                 buf |-> [i \in 1..(MaxCap + 1) |-> UNSET] ]

\* A call that reads past the terminating NUL of headers is undefined: it
\* goes on with whatever octets lie there (gp.fill), or the read faults.
IOTCLIENT_GetProperty ==
    /\ ~gp.done
    /\ LET r == GetProperty(gp.headers, gp.property, gp.bufNull, gp.buf,
                            gp.len, gp.fill)
       IN  \E fault \in IF r.oob THEN BOOLEAN ELSE {FALSE} :
              gp' = [gp EXCEPT !.done = TRUE, !.buf = r.buf, !.oob = r.oob,
                               !.rc = IF fault THEN "CRASH" ELSE r.rc]
    /\ UNCHANGED <<handles, fds, heap, fifo, rxQueue, last, pid, ctlMsgSize>>

NextGP == IOTCLIENT_GetProperty

SpecGP == InitGP /\ [][NextGP]_vars

(***************************************************************************)
(* Several handles in one process: Create, Send of a small message and     *)
(* Close in any order, with the pipe removable by others.  All the handles *)
(* of a process have the same pipe path.                                   *)
(***************************************************************************)
\* handle objects the process allocates here (ids are never reused)
MaxPipeHandles == 3

InitPipes ==
    /\ handles = [h \in 1..MaxPipeHandles |-> NoHandle]
    /\ fds = [n \in FdNums |->
                IF n <= STDERR_FILENO THEN [kind |-> "std", owner |-> 0]
                ELSE ClosedFd]
    /\ heap = [b \in BlockIds |-> FreeBlock]
    /\ fifo = NoFifo
    /\ rxQueue = NoQueue
    /\ last = NoCall
    /\ pid \in Pids
    /\ ctlMsgSize \in MsgSizes
    /\ gp = 0

NextPipes ==
    \/ IOTCLIENT_Create
    \/ SendSome
    \/ IOTCLIENT_Close
    \/ ExternalUnlink

SpecPipes == InitPipes /\ [][NextPipes]_vars

(***************************************************************************)
(* Reading the log of the last call.                                       *)
(***************************************************************************)
Events(call) == {i \in 1..Len(last.io) : last.io[i].call = call}
Succeeded(call) == \E i \in Events(call) : last.io[i].ok
\* a Send that got past the argument checks of IOTCLIENT_Send
SendOnLive == last.op = "Send" /\ last.h # NULL /\ ~last.hdrs.null
              /\ ~last.body.null
\* a Send or Stream that got past the argument checks
SendOrStreamOnLive ==
    \/ SendOnLive
    \/ last.op = "Stream" /\ last.h # NULL /\ ~last.hdrs.null /\ last.fd # -1
WroteAll ==
    \E i \in Events("write") : last.io[i].n = BodyLen(last.body)

C2_RoundTrip ==
    (last.op = "Send" /\ last.rc = EOK)
    => /\ Cardinality(Events("mq_send")) = 1
       /\ \A i \in Events("mq_send") :
             LET frame == last.io[i].data.head IN
             /\ Len(frame) = 8 + Len(last.hdrs.text)
             /\ SubSeq(frame, 1, 4) = <<73, 79, 84, 67>>
             /\ PidOfBytes(SubSeq(frame, 5, 8)) = pid
             /\ SubSeq(frame, 9, Len(frame)) = last.hdrs.text
       /\ Cardinality(Events("write")) = 1
       /\ \A i \in Events("write") :
             /\ last.io[i].data.head = last.body.head
             /\ last.io[i].data.zeros = last.body.zeros

C2_Witness ==
    /\ last.op = "Send"
    /\ last.rc = EOK
    /\ Len(last.hdrs.text) = 5
    /\ BodyLen(last.body) = 268435455
    /\ Succeeded("mq_send")

(***************************************************************************)
(* C3: on a live handle iotclient_SendHeaders fails with EMSGSIZE exactly  *)
(* when 8 + len(headers) >= the maximum message size read from the control *)
(* queue at Create, and then the Send or Stream call made no system call   *)
(* at all: nothing was handed to mq_send and the pipe was not opened.      *)
(***************************************************************************)
C3_HeadersTooLarge ==
    SendOrStreamOnLive
    => /\ (last.hrc = "EMSGSIZE") <=> (8 + Len(last.hdrs.text) >= ctlMsgSize)
       /\ (last.hrc = "EMSGSIZE") => (last.io = <<>> /\ last.rc = "EMSGSIZE")

C3_Witness ==
    /\ SendOrStreamOnLive
    /\ last.op = "Stream"
    /\ 8 + Len(last.hdrs.text) = ctlMsgSize
    /\ last.hrc = "EMSGSIZE"
    /\ last.io = <<>>

C5_SecondCloseIsNoOp ==
    (last.op = "Close" /\ last.h # NULL /\ last.ub)
    => (last.rc = EOK /\ last.io = <<>>)

(***************************************************************************)
(* C6: IOTCLIENT_Close returns EOK for every live handle whatever its      *)
(* state (pipe already removed from disk, no receiver ever created), and   *)
(* EINVAL only for the NULL handle.                                        *)
(***************************************************************************)
C6_CloseSucceeds ==
    (last.op = "Close" /\ ~last.ub)
    => /\ last.h # NULL => last.rc = EOK
       /\ last.h = NULL <=> last.rc = "EINVAL"

\* the pipe was gone before Close (unlink failed) and rxMsgQ was still the
\* 0 calloc left (mq_close was given descriptor 0)
C6_Witness ==
    /\ last.op = "Close"
    /\ last.h # NULL
    /\ last.rc = EOK
    /\ \E i \in Events("unlink") : ~last.io[i].ok
    /\ \E i \in Events("mq_close") : last.io[i].n = 0

(***************************************************************************)
(* C7 (as claimed): after a successful Close nothing acquired through the  *)
(* handle remains: the pipe is gone from disk, the control-queue           *)
(* descriptor and every receiver-queue descriptor the handle opened are    *)
(* closed, and its send and receive buffers are freed.                     *)
(***************************************************************************)
C7_NothingRemainsAfterClose ==
    (last.op = "Close" /\ last.h # NULL /\ last.rc = EOK /\ ~last.ub)
    => /\ ~fifo.exists
       /\ \A n \in DOMAIN fds :
             fds[n].owner = last.h => fds[n].kind \notin {"ctl", "rxq"}
       /\ \A b \in DOMAIN heap :
             heap[b].owner = last.h => heap[b].kind \notin {"txBuf", "rxBuf"}

(***************************************************************************)
(* C8 (as claimed): when IOTCLIENT_Create returns NULL, whatever the call  *)
(* had acquired is released: no descriptor it opened is open, no buffer it *)
(* allocated is allocated, no pipe it created is on disk.                  *)
(***************************************************************************)
C8_FailedCreateReleasesAll ==
    (last.op = "Create" /\ last.rc = "NULL")
    => /\ \A n \in DOMAIN fds : fds[n].owner # last.h
       /\ \A b \in DOMAIN heap : heap[b].owner # last.h
       /\ ~(fifo.exists /\ fifo.creator = last.h)

(***************************************************************************)
(* C9: the pipe a handle created is on disk only while that handle is      *)
(* live: in every state a pipe on disk was created by a handle that is     *)
(* live, no pipe is on disk when Close has returned, and none that the     *)
(* call created when Create has returned NULL.                             *)
(***************************************************************************)
C9_PipeOnlyWhileLive ==
    /\ fifo.exists => (fifo.creator \in DOMAIN handles
                       /\ handles[fifo.creator].state = "live")
    /\ (last.op = "Close" /\ last.h # NULL /\ last.rc = EOK /\ ~last.ub)
          => ~fifo.exists
    /\ (last.op = "Create" /\ last.rc = "NULL")
          => ~(fifo.exists /\ fifo.creator = last.h)

\* Close has just removed the pipe that was on disk
C9_Witness ==
    /\ last.op = "Close"
    /\ last.rc = EOK
    /\ \E i \in Events("unlink") : last.io[i].ok
    /\ ~fifo.exists

(***************************************************************************)
(* Reading the result of GetProperty.                                      *)
(***************************************************************************)
\* the caller's buffer read as a NUL-terminated string
CStr(buf) ==
    IF \E i \in 1..Len(buf) : buf[i] = 0
    THEN SubSeq(buf, 1, (CHOOSE i \in 1..Len(buf) :
                            buf[i] = 0 /\ \A j \in 1..(i - 1) : buf[j] # 0) - 1)
    ELSE buf
\* the offsets (from 0) at which name occurs in text directly followed by ':'
NameColonOffsets(text, name) ==
    { i \in 0..Len(text) :
        /\ i + Len(name) < Len(text)
        /\ SubSeq(text, i + 1, i + Len(name)) = name
        /\ text[i + Len(name) + 1] = 58 }
\* the characters of text from offset start up to the next '\n' or the end
ValueFrom(text, start) ==
    LET ends == {k \in (start + 1)..Len(text) : text[k] = 10}
        stop == IF ends = {} THEN Len(text) + 1
                ELSE CHOOSE k \in ends : \A m \in ends : k <= m
    IN  SubSeq(text, start + 1, stop - 1)
GpCalled == gp.done /\ ~gp.headers.null /\ ~gp.property.null /\ ~gp.bufNull

(***************************************************************************)
(* C10 (as claimed): GetProperty succeeds whenever some occurrence of the  *)
(* name in the header text is directly followed by ':' and the buffer is   *)
(* larger than the value: the result is EOK and the buffer holds the       *)
(* characters after that ':' up to the next '\n' or the end of the text,   *)
(* also when an earlier occurrence of the name is not followed by ':'.     *)
(***************************************************************************)
C10_FoundWheneverPresent ==
    LET text == gp.headers.text
        name == gp.property.text
        offs == NameColonOffsets(text, name)
        first == CHOOSE i \in offs : \A j \in offs : i <= j
        value == ValueFrom(text, first + Len(name) + 1)
    IN  (GpCalled /\ offs # {} /\ gp.len > Len(value))
        => (gp.rc = EOK /\ CStr(gp.buf) = value)

(***************************************************************************)
(* Header texts read as name:value lines.                                  *)
(***************************************************************************)
\* the offsets (from 0) at which a non-empty line of text starts
LineStarts(text) ==
    { i \in 0..(Len(text) - 1) :
        /\ text[i + 1] # 10
        /\ (i = 0 \/ text[i] = 10) }
\* the line of text that starts at offset i, without its '\n'
LineAt(text, i) == ValueFrom(text, i)
HasColon(line) == \E k \in 1..Len(line) : line[k] = 58
FirstColon(line) ==
    CHOOSE k \in 1..Len(line) :
        line[k] = 58 /\ \A j \in 1..(k - 1) : line[j] # 58
LineName(line) == SubSeq(line, 1, FirstColon(line) - 1)
LineValue(line) == SubSeq(line, FirstColon(line) + 1, Len(line))
Contains(big, small) ==
    \E i \in 0..(Len(big) - Len(small)) :
        SubSeq(big, i + 1, i + Len(small)) = small
\* name:value lines with distinct names none of which contains another
WellFormedHeaders(text) ==
    LET L == LineStarts(text) IN
    /\ L # {}
    /\ \A i \in L : /\ HasColon(LineAt(text, i))
                     /\ LineName(LineAt(text, i)) # <<>>
    /\ \A i, j \in L :
          i # j => ~Contains(LineName(LineAt(text, i)),
                             LineName(LineAt(text, j)))
\* the value of the line of text whose name is name
ValueOfName(text, name) ==
    LineValue(LineAt(text, CHOOSE i \in LineStarts(text) :
                              LineName(LineAt(text, i)) = name))
HasName(text, name) ==
    \E i \in LineStarts(text) :
        HasColon(LineAt(text, i)) /\ LineName(LineAt(text, i)) = name

(***************************************************************************)
(* C11 (as claimed): on headers made of name:value lines with distinct     *)
(* names none of which contains another, GetProperty of a present name     *)
(* with a buffer larger than the value returns EOK and the buffer, read as *)
(* a NUL-terminated string, is that value; GetProperty of a name that      *)
(* occurs nowhere in the text returns ENOENT.                              *)
(***************************************************************************)
C11_ExactValueOrNotFound ==
    LET text == gp.headers.text
        name == gp.property.text
    IN  (GpCalled /\ gp.len >= 1 /\ WellFormedHeaders(text))
        => /\ (HasName(text, name) /\ gp.len > Len(ValueOfName(text, name)))
                 => (gp.rc = EOK /\ CStr(gp.buf) = ValueOfName(text, name))
           /\ ~Contains(text, name) => gp.rc = "ENOENT"

\* what the code takes for the property: the first occurrence of the name,
\* when a ':' follows it; its value runs to the next '\n' or the end
CodeFound(text, name) ==
    /\ strstr(text, name) # -1
    /\ strstr(text, name) + Len(name) < Len(text)
    /\ text[strstr(text, name) + Len(name) + 1] = 58
CodeValue(text, name) == ValueFrom(text, strstr(text, name) + Len(name) + 1)
\* the octets of the caller's memory at index >= capacity are as they were
BehindBufferUntouched ==
    \A i \in (gp.len + 1)..Len(gp.buf) : gp.buf[i] = 255

(***************************************************************************)
(* C12: for every capacity >= 1, GetProperty of a name it finds returns    *)
(* ENOMEM exactly when len(value) + 1 > capacity; and no call writes to    *)
(* the caller's memory at an index >= capacity.                            *)
(***************************************************************************)
C12_TooSmallExactly ==
    LET text == gp.headers.text
        name == gp.property.text
    IN  /\ (GpCalled /\ gp.len >= 1 /\ CodeFound(text, name))
              => (gp.rc = "ENOMEM"
                    <=> Len(CodeValue(text, name)) + 1 > gp.len)
        /\ gp.done => BehindBufferUntouched

\* the value is as long as the buffer: every octet of the buffer was
\* written, none behind it, and the result is ENOMEM
C12_Witness ==
    /\ GpCalled
    /\ gp.len >= 1
    /\ CodeFound(gp.headers.text, gp.property.text)
    /\ Len(CodeValue(gp.headers.text, gp.property.text)) = gp.len
    /\ gp.rc = "ENOMEM"
    /\ gp.buf[gp.len] # 255

Received == last.op = "Receive" /\ last.n > 0
\* the receive buffer of the handle of the last call, as it is now
RxData == heap[handles[last.h].rxBuf].data
\* the offset of the first "\n\n" within the n octets of the message, or -1
DelimiterAt == strstr(last.msg, <<10, 10>>)
\* the octets of the buffer a view (offset, length) covers
View(offset, length) == SubSeq(RxData, offset + 1, offset + length)

(***************************************************************************)
(* C14 (as claimed): when the n octets of a received message have their    *)
(* first "\n\n" at offset k, Receive returns EOK with the header view      *)
(* buffer[0:k], header length k, and body length n - (k + 2), the body     *)
(* view starting at offset k + 2 (an empty body, length 0, when            *)
(* k + 2 >= n): header length + 2 + body length = n.                       *)
(***************************************************************************)
C14_SplitAtDelimiter ==
    (Received /\ DelimiterAt # -1)
    => /\ last.rc = EOK
       /\ last.out.set
       /\ last.out.header = 0
       /\ last.out.hlen = DelimiterAt
       /\ View(0, last.out.hlen) = SubSeq(last.msg, 1, DelimiterAt)
       /\ last.out.blen = last.n - (DelimiterAt + 2)
       /\ last.out.blen > 0 => last.out.body = DelimiterAt + 2
       /\ last.out.hlen + 2 + last.out.blen = last.n

(***************************************************************************)
(* C15 (as claimed): when the n octets of a received message contain no    *)
(* "\n\n", Receive returns EOK with empty headers (length 0) and the body  *)
(* view buffer[0:n], the whole message, with body length n.                *)
(***************************************************************************)
C15_NoDelimiterAllBody ==
    (Received /\ DelimiterAt = -1)
    => /\ last.rc = EOK
       /\ last.out.set
       /\ last.out.hlen = 0
       /\ last.out.body = 0
       /\ last.out.blen = last.n
       /\ View(0, last.n) = last.msg

C17_ReceiveWaitsForMessage ==
    (last.op = "Receive" /\ last.rc \notin {"PENDING", "EINVAL"})
    => IF last.n = -1
       THEN last.rc # EOK /\ ~last.out.set
       ELSE /\ last.rc = EOK
            /\ last.out.set
            /\ \A i \in 1..last.n :
                  \/ RxData[i] = last.msg[i]
                  \/ (i = last.out.hlen + 1 /\ RxData[i] = 0)

(***************************************************************************)
(* C18 (as claimed): in every state of a process that has kept to the API  *)
(* (no call on a freed handle), a live handle holds exactly one open       *)
(* control-queue descriptor, at most one open receiver-queue descriptor    *)
(* and at most one receive buffer, also after CreateReceiver has been      *)
(* called on it more than once.                                            *)
(***************************************************************************)
C18_OneDescriptorEach ==
    ~last.ub
    => \A h \in LiveHandles :
          /\ Cardinality({n \in DOMAIN fds :
                fds[n].owner = h /\ fds[n].kind = "ctl"}) = 1
          /\ Cardinality({n \in DOMAIN fds :
                fds[n].owner = h /\ fds[n].kind = "rxq"}) <= 1
          /\ Cardinality({b \in DOMAIN heap :
                heap[b].owner = h /\ heap[b].kind = "rxBuf"}) <= 1

(***************************************************************************)
(* What a Stream call handed to write, and what its source delivered.      *)
(***************************************************************************)
RECURSIVE WrittenFrom(_)
WrittenFrom(i) ==
    IF i > Len(last.io) THEN [len |-> 0, head |-> <<>>]
    ELSE LET rest == WrittenFrom(i + 1) IN
         IF last.io[i].call = "write"
         THEN [len |-> last.io[i].n + rest.len,
               head |-> last.io[i].data.head \o rest.head]
         ELSE rest
RECURSIVE SourceFrom(_)
SourceFrom(i) ==
    IF i > Len(last.src) THEN [len |-> 0, head |-> <<>>]
    ELSE LET rest == SourceFrom(i + 1) IN
         IF last.src[i].n > 0
         THEN [len |-> last.src[i].n + rest.len,
               head |-> last.src[i].data.head \o rest.head]
         ELSE rest
Min(a, b) == IF a <= b THEN a ELSE b

(***************************************************************************)
(* C19 (as claimed): a Stream that opened the pipe hands at most 256 MiB   *)
(* in total to write, and the octets it hands over are, in order, exactly  *)
(* the first min(len(source), 256 MiB) octets of the source.               *)
(***************************************************************************)
C19_StreamPassesSourcePrefix ==
    (last.op = "Stream" /\ Succeeded("open"))
    => /\ WrittenFrom(1).len <= 268435456
       /\ WrittenFrom(1).len = Min(SourceFrom(1).len, 268435456)
       /\ WrittenFrom(1).head
             = SubSeq(SourceFrom(1).head, 1, Len(WrittenFrom(1).head))
       /\ Len(WrittenFrom(1).head)
             = Min(Len(SourceFrom(1).head), WrittenFrom(1).len)

(***************************************************************************)
(* C20: in Send and in Stream the header frame is handed to mq_send before *)
(* the pipe is opened, and when the headers are not accepted (too large,   *)
(* bad queue descriptor, mq_send failed) that call neither opens the pipe  *)
(* nor writes a body octet.                                                *)
(***************************************************************************)
C20_HeadersBeforeBody ==
    (last.op \in {"Send", "Stream"})
    => /\ \A i \in Events("open") \cup Events("write") :
             \E j \in Events("mq_send") : j < i /\ last.io[j].ok
       /\ last.hrc # EOK => (Events("open") = {} /\ Events("write") = {})

\* mq_send failed in a Stream call: nothing else was done
C20_Witness ==
    /\ last.op = "Stream"
    /\ last.h # NULL
    /\ Events("mq_send") # {}
    /\ ~Succeeded("mq_send")
    /\ last.hrc # EOK
    /\ Events("open") = {}

(***************************************************************************)
(* C21 (as claimed): every iotclient_SendBody that opened the pipe has     *)
(* closed it when it returns, whatever the outcome (all written, short     *)
(* write, write error, oversized body): between the calls of the library   *)
(* no descriptor on the pipe is open.                                      *)
(***************************************************************************)
C21_PipeClosedBetweenCalls ==
    /\ \A n \in DOMAIN fds : fds[n].kind # "pipe"
    /\ (last.op = "Send" /\ Succeeded("open"))
          => \E i \in Events("close") : last.io[i].ok

\* the offsets (from 0) at which name occurs in text
Occurrences(text, name) ==
    { i \in 0..(Len(text) - Len(name)) :
        SubSeq(text, i + 1, i + Len(name)) = name }

(***************************************************************************)
(* C24: GetProperty matches the name as a bare substring.  When the name   *)
(* occurs once in the header text, inside a longer name (not at the start  *)
(* of a line) and directly before the ':', a call that returns, with a     *)
(* buffer larger than the value, returns EOK and the value of that line;   *)
(* for "myfoo:1\n" and "foo" the result is EOK with "1".                   *)
(***************************************************************************)
C24_BareSubstringMatch ==
    LET text == gp.headers.text
        name == gp.property.text
        offs == Occurrences(text, name)
        at   == CHOOSE i \in offs : TRUE
        value == ValueFrom(text, at + Len(name) + 1)
    IN  /\ ( /\ GpCalled
             /\ gp.rc # "CRASH"
             /\ Cardinality(offs) = 1
             /\ at > 0
             /\ text[at] # 10
             /\ at + Len(name) < Len(text)
             /\ text[at + Len(name) + 1] = 58
             /\ gp.len > Len(value) )
           => (gp.rc = EOK /\ CStr(gp.buf) = value)
        /\ ( /\ GpCalled
             /\ gp.rc # "CRASH"
             /\ text = <<109, 121, 102, 111, 111, 58, 49, 10>>
             /\ name = <<102, 111, 111>>
             /\ gp.len >= 2 )
           => (gp.rc = EOK /\ CStr(gp.buf) = <<49>>)

\* "myfoo:1\n", "foo", capacity 2: EOK with "1"
C24_Witness ==
    /\ GpCalled
    /\ gp.headers.text = <<109, 121, 102, 111, 111, 58, 49, 10>>
    /\ gp.property.text = <<102, 111, 111>>
    /\ gp.len = 2
    /\ gp.rc = EOK
    /\ gp.buf[1] = 49
    /\ gp.buf[2] = 0

(***************************************************************************)
(* C28 (as claimed): GetProperty stops at the end of the value: no call    *)
(* reads an octet past the terminating NUL of the header text, and a call  *)
(* that found the value has written nothing to the caller's buffer after   *)
(* the NUL that terminates it, whatever the capacity.                      *)
(***************************************************************************)
C28_StopsAtEndOfValue ==
    /\ gp.done => ~gp.oob
    /\ (GpCalled /\ gp.rc = EOK)
          => \A i \in 1..Len(gp.buf) :
                i > Len(CStr(gp.buf)) + 1 => gp.buf[i] = 255

(***************************************************************************)
(* C29 (as claimed): a Send that returns a failure has left nothing of     *)
(* that message with the gateway: whenever IOTCLIENT_Send returns a result *)
(* other than EOK (oversized body, pipe not opened, short write), no       *)
(* header frame of that call was accepted by the control queue.            *)
(***************************************************************************)
C29_FailedSendLeavesNoFrame ==
    (last.op = "Send" /\ last.rc # EOK) => ~Succeeded("mq_send")

(***************************************************************************)
(* C30 (as claimed): in a Stream call every write to the pipe directly     *)
(* follows a read that succeeded and passes at most the count that read    *)
(* returned, which is at most one block of BUFSIZ octets; after a read     *)
(* that failed nothing more is written.                                    *)
(***************************************************************************)
C30_WriteAtMostWhatWasRead ==
    (last.op = "Stream")
    => /\ \A i \in Events("write") :
             /\ i > 1
             /\ last.io[i - 1].call = "read"
             /\ last.io[i - 1].ok
             /\ last.io[i].n <= last.io[i - 1].n
             /\ last.io[i].n <= 8192
       /\ \A i \in Events("read") :
             ~last.io[i].ok => \A j \in Events("write") : j < i

(***************************************************************************)
(* C25 (as claimed): IOTCLIENT_Close closes only descriptors the handle    *)
(* itself opened.  The process starts with descriptors 0..2 open (the      *)
(* standard streams), which no handle opened: in every state of a process  *)
(* that has kept to the API they are still open, and a Close never hands   *)
(* one of them to mq_close, also when CreateReceiver was never called on   *)
(* the handle.                                                             *)
(***************************************************************************)
C25_CloseOnlyOwnDescriptors ==
    ~last.ub
    => /\ \A n \in DOMAIN fds : n <= 2 => fds[n].kind = "std"
       /\ last.op = "Close"
             => \A i \in Events("mq_close") : last.io[i].n > 2

(***************************************************************************)
(* C27 (as claimed): the result of a Receive depends only on the n octets  *)
(* of the message just taken from the queue: the call returns EOK, it      *)
(* reports a delimiter exactly when those n octets contain one, at its     *)
(* offset among them, both views lie within buffer[0:n], and header        *)
(* length + body length <= n.                                              *)
(***************************************************************************)
C27_ResultWithinMessage ==
    Received
    => /\ last.rc = EOK
       /\ last.out.set
       /\ (last.out.header # -1) <=> (DelimiterAt # -1)
       /\ last.out.header # -1
             => /\ last.out.hlen = DelimiterAt
                /\ last.out.header + last.out.hlen <= last.n
       /\ last.out.blen >= 0
       /\ last.out.body # -1 => last.out.body + last.out.blen <= last.n
       /\ last.out.hlen + last.out.blen <= last.n

(***************************************************************************)
(* C26 (as claimed): with several handles in one process, the only call of *)
(* the library that removes a pipe from disk is the Close of the handle    *)
(* that created it: no IOTCLIENT_Create removes a pipe (in particular not  *)
(* one that fails because the path exists), and no Close removes the pipe  *)
(* of another handle.                                                      *)
(***************************************************************************)
C26_PipeStaysUntilOwnClose ==
    \A i \in Events("unlink") :
        last.io[i].ok => (last.op = "Close" /\ last.io[i].n = last.h)

(***************************************************************************)
(* C23 (as claimed): after CreateReceiver has returned EOK, the queue the  *)
(* handle reads from has the message size the call asked for, which is the *)
(* size of the handle's receive buffer, also when a queue of that name     *)
(* existed before; and no Receive fails with EMSGSIZE.                     *)
(***************************************************************************)
C23_QueueMatchesBuffer ==
    /\ (last.op = "CreateReceiver" /\ last.rc = EOK)
          => /\ rxQueue.exists
             /\ rxQueue.msgsize = handles[last.h].rxBufSize
             /\ heap[handles[last.h].rxBuf].size = rxQueue.msgsize
    /\ last.op = "Receive" => last.rc # "EMSGSIZE"

\* IOTCLIENT_Stream has returned from a call that got to the loop
StreamReturned ==
    last.op = "Stream" /\ last.rc = EOK /\ last.sb.fd_out # -1

(***************************************************************************)
(* C22: iotclient_StreamBody terminates for every source, finite or        *)
(* endless, provided each read and write returns: a call that has opened   *)
(* the pipe leaves the loop, when a read returns no data or when the       *)
(* cumulative count has reached 256 MiB, and returns; when it has          *)
(* returned, the descriptor it opened is closed and the count is at most   *)
(* 256 MiB.                                                                *)
(***************************************************************************)
C22_StreamTerminates ==
    /\ [](Streaming => <>StreamReturned)
    /\ [](StreamReturned
            => /\ fds[last.sb.fd_out].kind = "closed"
               /\ last.sb.total <= 268435456
               /\ \A n \in DOMAIN fds : fds[n].kind # "pipe")
    /\ [](last.op = "Stream" /\ last.rc = "CLOSING"
            => last.sb.total < 268435456)

\* an endless source: the call has returned after 32768 full blocks
C22_Witness ==
    /\ StreamReturned
    /\ last.sb.rest.n = 8192
    /\ last.src = <<>>
    /\ last.sb.k = 32768
    /\ last.sb.total = 268435456

(***************************************************************************)
(* C31 (as claimed): in every state of a process that has kept to the API, *)
(* every live handle has its control-queue descriptor open (the descriptor *)
(* it opened, still a descriptor on the control queue), its send buffer    *)
(* allocated with exactly maxMessageSize octets, and maxMessageSize as     *)
(* read from the queue at Create; and iotclient_SendHeaders on a live      *)
(* handle never returns EBADF.                                             *)
(***************************************************************************)
C31_LiveHandleKeepsChannel ==
    ~last.ub
    => /\ \A h \in LiveHandles :
             /\ handles[h].txMsgQ \in DOMAIN fds
             /\ fds[handles[h].txMsgQ].kind = "ctl"
             /\ fds[handles[h].txMsgQ].owner = h
             /\ handles[h].txBuf \in DOMAIN heap
             /\ heap[handles[h].txBuf].kind = "txBuf"
             /\ heap[handles[h].txBuf].size = handles[h].maxMessageSize
             /\ handles[h].maxMessageSize = ctlMsgSize
       /\ (last.op = "Send" /\ last.h # NULL) => last.hrc # "EBADF"

====
